---- MODULE Spec2Model ----
(***************************************************************************)
(* A model of ChunkDecoder (src/ChunkDecoder.js): the block-name table,    *)
(* the byte-level decoding of a chunk payload into subchunks, layers and   *)
(* sparse blocks, the chunk cache and the point query getBlockAt.          *)
(*                                                                         *)
(* decodeChunk runs synchronously; it is modelled one byte read or one     *)
(* loop test per step, with pc naming the position inside decodeChunk /    *)
(* decodeSubChunk.  No other operation of the decoder can start while      *)
(* pc # "idle".                                                            *)
(***************************************************************************)
EXTENDS Integers, Sequences, FiniteSets, TLC

VARIABLES
  blockMappings,  \* this.blockMappings: runtime id -> name
  chunkCache,     \* this.chunkCache: key string -> chunk
  pc,             \* position inside decodeChunk / decodeSubChunk, or "idle"
  payload,        \* decodeChunk: the payload argument
  chunkX,         \* decodeChunk: argument
  chunkZ,         \* decodeChunk: argument
  offset,         \* decodeChunk: let offset
  subChunkCount,  \* decodeChunk: const subChunkCount
  storageVersion, \* decodeChunk: const storageVersion
  chunk,          \* decodeChunk: const chunk
  y,              \* decodeChunk: loop variable y
  subOffset,      \* decodeSubChunk: its offset parameter (a copy)
  version,        \* decodeSubChunk: const version
  layerCount,     \* decodeSubChunk: const layerCount
  subChunk,       \* decodeSubChunk: const subChunk
  layer,          \* decodeSubChunk: loop variable layer
  i,              \* decodeSubChunk: loop variable i
  blocks,         \* decodeSubChunk: const blocks of the current layer
  outcome,        \* what the last finished call returned or threw
  calls,          \* history: the finished decodeChunk calls, oldest first
  lastRead,       \* history: offset of the last byte read attempted, -1 if none
  spans,          \* history: per pushed subchunk, where it started and what it declared
  layerStart,     \* history: offset at which the current layer's blocks start
  cacheBefore,    \* history: chunkCache when the current decodeChunk call began
  itemLog,        \* history: every itemstates entry processed, oldest first
  query,          \* history: the arguments of the last getBlockAt call
  codec           \* the coordinate transforms' input and results (SpecCodec)

decoderVars == <<blockMappings, chunkCache>>
chunkFrame  == <<payload, chunkX, chunkZ, offset, subChunkCount, storageVersion, chunk, y>>
subFrame    == <<subOffset, version, layerCount, subChunk, layer, i, blocks>>
histVars    == <<calls, lastRead, spans, layerStart, cacheBefore, itemLog, query>>
vars == <<decoderVars, pc, chunkFrame, subFrame, outcome, histVars, codec>>

----------------------------------------------------------------------------
(* Program constants *)

\* for (let i = 0; i < 4096 && ...; i++)
BlocksPerLayer == 4096

----------------------------------------------------------------------------
(* Buffers.  A payload is either absent (null/undefined) or a Buffer: a     *)
(* byte 0..255 at every offset 0..length-1.  The Buffer is held as its     *)
(* length and its non-zero bytes (data: offset -> byte); every offset of   *)
(* 0..length-1 outside DOMAIN data holds the byte 0.                       *)

NullPayload == [present |-> FALSE, length |-> 0, data |-> <<>>]

\* the Buffer holding the bytes of the sequence s
Buf(s) ==
  [present |-> TRUE,
   length  |-> Len(s),
   data    |-> [o \in {k - 1 : k \in {j \in 1..Len(s) : s[j] # 0}} |-> s[o + 1]]]

PayloadLength(p) == p.length

ByteAt(p, off) == IF off \in DOMAIN p.data THEN p.data[off] ELSE 0

\* Buffer.readInt8 / readUInt8 throw a RangeError outside 0..length-1
InRange(p, off) == off >= 0 /\ off < PayloadLength(p)

ReadUInt8(p, off) == ByteAt(p, off)

ReadInt8(p, off) ==
  LET b == ByteAt(p, off) IN IF b >= 128 THEN b - 256 ELSE b

----------------------------------------------------------------------------
(* Block name table *)

\* JavaScript truthiness of a name looked up in blockMappings
Falsy(v) == v = ""

\* this.blockMappings[blockId] || `unknown_block_${blockId}`
ResolveName(blockId) ==
  IF blockId \in DOMAIN blockMappings /\ ~Falsy(blockMappings[blockId])
  THEN blockMappings[blockId]
  ELSE "unknown_block_" \o ToString(blockId)

\* one iteration of itemstates.forEach: an entry is [name, has_id, runtime_id]
ApplyState(m, state) ==
  IF state.has_id
  THEN [k \in DOMAIN m \cup {state.runtime_id} |->
          IF k = state.runtime_id THEN state.name ELSE m[k]]
  ELSE m

RECURSIVE ApplyStates(_, _)
ApplyStates(m, itemstates) ==
  IF itemstates = <<>> THEN m
  ELSE ApplyStates(ApplyState(m, Head(itemstates)), Tail(itemstates))

----------------------------------------------------------------------------
(* Coordinate arithmetic *)

\* JavaScript a % b for b > 0: the result takes the sign of a
JsRem(a, b) == IF a >= 0 THEN a % b ELSE -((-a) % b)

\* variant: z is taken from index / 16 without reducing the index modulo 256 first
CreateBlockDataWideZ(blockId, index) ==
  [index |-> index,
   id    |-> blockId,
   name  |-> ResolveName(blockId),
   x     |-> JsRem(index, 16),
   y     |-> index \div 256,
   z     |-> index \div 16]

CreateBlockData(blockId, index) ==
  [index |-> index,
   id    |-> blockId,
   name  |-> ResolveName(blockId),
   x     |-> JsRem(index, 16),
   y     |-> index \div 256,
   z     |-> JsRem(index, 256) \div 16]

\* const blockIndex = (localY * 256) + (z * 16) + x
BlockIndex(localY, x, z) == (localY * 256) + (z * 16) + x

----------------------------------------------------------------------------
(* Chunk cache *)

\* variant: the key joins the coordinates without a separator
CacheKeyNoSeparator(x, z) == ToString(x) \o ToString(z)

\* const key = `${chunk.x},${chunk.z}`
CacheKey(x, z) == ToString(x) \o "," \o ToString(z)

\* this.chunkCache.set(key, chunk)
CacheChunk(cache, c) ==
  LET key == CacheKey(c.x, c.z) IN
  [k \in DOMAIN cache \cup {key} |-> IF k = key THEN c ELSE cache[k]]

\* this.chunkCache.get(`${x},${z}`); undefined is [found |-> FALSE]
GetLastDecodedChunk(x, z) ==
  IF CacheKey(x, z) \in DOMAIN chunkCache
  THEN [found |-> TRUE, chunk |-> chunkCache[CacheKey(x, z)]]
  ELSE [found |-> FALSE]

----------------------------------------------------------------------------
(* decodeChunk and decodeSubChunk, step by step *)

\* the catch of decodeChunk: rethrow with the coordinates in the message
WrapError(x, z, message) ==
  [kind    |-> "error",
   message |-> "Failed to decode chunk at " \o ToString(x) \o "," \o ToString(z)
               \o ": " \o message]

\* an error thrown inside the try of decodeChunk ends the call
Throw(x, z, message) ==
  /\ pc' = "idle"
  /\ outcome' = WrapError(x, z, message)
  /\ calls' = Append(calls, [x |-> x, z |-> z, ok |-> FALSE])

\* variant: only an absent or empty payload is refused
TooShortEmptyOnly(p) == ~p.present \/ PayloadLength(p) < 1

\* if (!payload || payload.length < 2)
TooShort(p) == ~p.present \/ PayloadLength(p) < 2

DecodeChunk(p, x, z) ==
  /\ pc = "idle"
  /\ payload' = p
  /\ chunkX' = x
  /\ chunkZ' = z
  /\ offset' = 0
  /\ chunk' = [x |-> x, z |-> z, subChunks |-> <<>>]
  /\ lastRead' = -1
  /\ spans' = <<>>
  /\ cacheBefore' = chunkCache
  /\ IF TooShort(p)
     THEN Throw(x, z, "Invalid chunk payload: too short")
     ELSE /\ pc' = "readSubChunkCount"
          /\ outcome' = [kind |-> "running"]
          /\ UNCHANGED calls
  /\ UNCHANGED <<decoderVars, subChunkCount, storageVersion, y, subFrame,
                 layerStart, itemLog, query, codec>>

\* const subChunkCount = payload.readInt8(offset++)
ReadSubChunkCount ==
  /\ pc = "readSubChunkCount"
  /\ lastRead' = offset
  /\ IF InRange(payload, offset)
     THEN /\ subChunkCount' = ReadInt8(payload, offset)
          /\ offset' = offset + 1
          /\ pc' = "readStorageVersion"
          /\ UNCHANGED <<outcome, calls>>
     ELSE /\ Throw(chunkX, chunkZ, "out of range")
          /\ UNCHANGED <<subChunkCount, offset>>
  /\ UNCHANGED <<decoderVars, payload, chunkX, chunkZ, storageVersion, chunk, y,
                 subFrame, spans, layerStart, cacheBefore, itemLog, query, codec>>

\* const storageVersion = payload.readInt8(offset++); then let y = 0
ReadStorageVersion ==
  /\ pc = "readStorageVersion"
  /\ lastRead' = offset
  /\ IF InRange(payload, offset)
     THEN /\ storageVersion' = ReadInt8(payload, offset)
          /\ offset' = offset + 1
          /\ y' = 0
          /\ pc' = "chunkLoop"
          /\ UNCHANGED <<outcome, calls>>
     ELSE /\ Throw(chunkX, chunkZ, "out of range")
          /\ UNCHANGED <<storageVersion, offset, y>>
  /\ UNCHANGED <<decoderVars, payload, chunkX, chunkZ, subChunkCount, chunk,
                 subFrame, spans, layerStart, cacheBefore, itemLog, query, codec>>

\* variant: the subchunk loop runs on the declared count alone
ChunkLoopGuardCountOnly == y < subChunkCount

\* y < subChunkCount && offset < payload.length - 1
ChunkLoopGuard == y < subChunkCount /\ offset < PayloadLength(payload) - 1

\* the loop test passes: call this.decodeSubChunk(payload, offset, y)
EnterSubChunk ==
  /\ pc = "chunkLoop"
  /\ ChunkLoopGuard
  /\ subOffset' = offset
  /\ pc' = "decodeSubChunk"
  /\ UNCHANGED <<decoderVars, chunkFrame, version, layerCount, subChunk, layer, i,
                 blocks, outcome, histVars, codec>>

\* the loop test fails: this.cacheChunk(chunk); return chunk
ReturnChunk ==
  /\ pc = "chunkLoop"
  /\ ~ChunkLoopGuard
  /\ chunkCache' = CacheChunk(chunkCache, chunk)
  /\ outcome' = [kind |-> "chunk", chunk |-> chunk]
  /\ calls' = Append(calls, [x |-> chunkX, z |-> chunkZ, ok |-> TRUE, chunk |-> chunk])
  /\ pc' = "idle"
  /\ UNCHANGED <<blockMappings, chunkFrame, subFrame, lastRead, spans, layerStart,
                 cacheBefore, itemLog, query, codec>>

\* variant: the header check asks for one byte more than the loop guard does
SubChunkOverflowStrict == subOffset >= PayloadLength(payload) - 2

\* if (offset >= payload.length - 1) throw new Error('Buffer overflow ...')
SubChunkOverflow == subOffset >= PayloadLength(payload) - 1

CheckSubChunkHeader ==
  /\ pc = "decodeSubChunk"
  /\ IF SubChunkOverflow
     THEN /\ Throw(chunkX, chunkZ, "Buffer overflow while reading subchunk")
     ELSE /\ pc' = "readVersion"
          /\ UNCHANGED <<outcome, calls>>
  /\ UNCHANGED <<decoderVars, chunkFrame, subFrame, lastRead, spans, layerStart,
                 cacheBefore, itemLog, query, codec>>

\* const version = payload.readInt8(offset++)
ReadVersion ==
  /\ pc = "readVersion"
  /\ lastRead' = subOffset
  /\ IF InRange(payload, subOffset)
     THEN /\ version' = ReadInt8(payload, subOffset)
          /\ subOffset' = subOffset + 1
          /\ pc' = "readLayerCount"
          /\ UNCHANGED <<outcome, calls>>
     ELSE /\ Throw(chunkX, chunkZ, "out of range")
          /\ UNCHANGED <<version, subOffset>>
  /\ UNCHANGED <<decoderVars, chunkFrame, layerCount, subChunk, layer, i, blocks,
                 spans, layerStart, cacheBefore, itemLog, query, codec>>

\* const layerCount = payload.readInt8(offset++); const subChunk = {...}; layer = 0
ReadLayerCount ==
  /\ pc = "readLayerCount"
  /\ lastRead' = subOffset
  /\ IF InRange(payload, subOffset)
     THEN /\ layerCount' = ReadInt8(payload, subOffset)
          /\ subOffset' = subOffset + 1
          /\ subChunk' = [y |-> y, version |-> version, layers |-> <<>>]
          /\ layer' = 0
          /\ pc' = "layerLoop"
          /\ UNCHANGED <<outcome, calls>>
     ELSE /\ Throw(chunkX, chunkZ, "out of range")
          /\ UNCHANGED <<layerCount, subOffset, subChunk, layer>>
  /\ UNCHANGED <<decoderVars, chunkFrame, version, i, blocks,
                 spans, layerStart, cacheBefore, itemLog, query, codec>>

\* layer < layerCount && offset < payload.length - 1
LayerLoopGuard == layer < layerCount /\ subOffset < PayloadLength(payload) - 1

\* the layer loop test passes: const blocks = []; i = 0
EnterLayer ==
  /\ pc = "layerLoop"
  /\ LayerLoopGuard
  /\ blocks' = <<>>
  /\ i' = 0
  /\ layerStart' = subOffset
  /\ pc' = "blockLoop"
  /\ UNCHANGED <<decoderVars, chunkFrame, subOffset, version, layerCount, subChunk,
                 layer, outcome, calls, lastRead, spans, cacheBefore, itemLog, query, codec>>

\* the layer loop test fails: return {data: subChunk, newOffset: offset};
\* back in decodeChunk: offset = newOffset; chunk.subChunks.push(data); y++
ReturnSubChunk ==
  /\ pc = "layerLoop"
  /\ ~LayerLoopGuard
  /\ offset' = subOffset
  /\ chunk' = [chunk EXCEPT !.subChunks = Append(@, subChunk)]
  /\ spans' = Append(spans, [start |-> offset, layerCount |-> layerCount])
  /\ y' = y + 1
  /\ pc' = "chunkLoop"
  /\ UNCHANGED <<decoderVars, payload, chunkX, chunkZ, subChunkCount, storageVersion,
                 subFrame, outcome, calls, lastRead, layerStart, cacheBefore,
                 itemLog, query, codec>>

\* variant: the block loop runs on the block count alone
BlockLoopGuardCountOnly == i < BlocksPerLayer

\* i < 4096 && offset < payload.length - 1
BlockLoopGuard == i < BlocksPerLayer /\ subOffset < PayloadLength(payload) - 1

\* one iteration of the block loop: the read is inside try/catch, a failed read
\* breaks out of the loop
ReadBlock ==
  /\ pc = "blockLoop"
  /\ BlockLoopGuard
  /\ lastRead' = subOffset
  /\ IF InRange(payload, subOffset)
     THEN LET blockId == ReadUInt8(payload, subOffset) IN
          /\ subOffset' = subOffset + 1
          /\ blocks' = IF blockId # 0
                       THEN Append(blocks, CreateBlockData(blockId, i))
                       ELSE blocks
          /\ i' = i + 1
          /\ pc' = "blockLoop"
     ELSE /\ pc' = "layerEnd"
          /\ UNCHANGED <<subOffset, blocks, i>>
  /\ UNCHANGED <<decoderVars, chunkFrame, version, layerCount, subChunk, layer,
                 outcome, calls, spans, layerStart, cacheBefore, itemLog, query, codec>>

\* the block loop test fails
ExitBlockLoop ==
  /\ pc = "blockLoop"
  /\ ~BlockLoopGuard
  /\ pc' = "layerEnd"
  /\ UNCHANGED <<decoderVars, chunkFrame, subFrame, outcome, histVars, codec>>

\* if (blocks.length > 0) subChunk.layers.push({index: layer, blocks}); layer++
EndLayer ==
  /\ pc = "layerEnd"
  /\ subChunk' = IF Len(blocks) > 0
                 THEN [subChunk EXCEPT
                         !.layers = Append(@, [index |-> layer, blocks |-> blocks])]
                 ELSE subChunk
  /\ layer' = layer + 1
  /\ pc' = "layerLoop"
  /\ UNCHANGED <<decoderVars, chunkFrame, subOffset, version, layerCount, i, blocks,
                 outcome, histVars, codec>>

DecodeSteps ==
  \/ ReadSubChunkCount
  \/ ReadStorageVersion
  \/ EnterSubChunk
  \/ ReturnChunk
  \/ CheckSubChunkHeader
  \/ ReadVersion
  \/ ReadLayerCount
  \/ EnterLayer
  \/ ReturnSubChunk
  \/ ReadBlock
  \/ ExitBlockLoop
  \/ EndLayer

----------------------------------------------------------------------------
(* setBlockMappings *)

SetBlockMappings(itemstates) ==
  /\ pc = "idle"
  /\ blockMappings' = ApplyStates(blockMappings, itemstates)
  /\ itemLog' = itemLog \o itemstates
  /\ UNCHANGED <<chunkCache, pc, chunkFrame, subFrame, outcome, calls, lastRead,
                 spans, layerStart, cacheBefore, query, codec>>

----------------------------------------------------------------------------
(* getBlockAt *)

SetMin(S) == CHOOSE m \in S : \A n \in S : m <= n

\* variant: a missing subchunk answers with an air block
MissingSubChunkAir(x, absY, z) ==
  [kind |-> "block",
   block |-> [index |-> 0, id |-> 0, name |-> "air", x |-> x, y |-> absY, z |-> z]]

\* if (!subChunk) return null
MissingSubChunk(x, absY, z) == [kind |-> "null"]

\* variant: the last layer holding the index wins
FindBlockLastLayer(layers, blockIndex) ==
  LET Hits(l) == {b \in 1..Len(layers[l].blocks) : layers[l].blocks[b].index = blockIndex}
      holding == {l \in 1..Len(layers) : Hits(l) # {}}
  IN IF holding = {}
     THEN [found |-> FALSE]
     ELSE LET l == CHOOSE m \in holding : \A n \in holding : m >= n
          IN [found |-> TRUE, block |-> layers[l].blocks[SetMin(Hits(l))]]

\* for (const layer of subChunk.layers) { layer.blocks.find(b => b.index === blockIndex) }
\* the first block with that index of the first layer that holds one
FindBlock(layers, blockIndex) ==
  LET Hits(l) == {b \in 1..Len(layers[l].blocks) : layers[l].blocks[b].index = blockIndex}
      holding == {l \in 1..Len(layers) : Hits(l) # {}}
  IN IF holding = {}
     THEN [found |-> FALSE]
     ELSE LET l == SetMin(holding)
          IN [found |-> TRUE, block |-> layers[l].blocks[SetMin(Hits(l))]]

GetBlockAtResult(c, x, absY, z) ==
  IF x < 0 \/ x > 15 \/ z < 0 \/ z > 15
  THEN [kind |-> "error", message |-> "Local coordinates must be between 0-15"]
  ELSE LET subChunkIndex == absY \div 16
           localY == JsRem(absY, 16)
           \* chunk.subChunks.find(sc => sc.y === subChunkIndex): the first match
           matching == {k \in 1..Len(c.subChunks) : c.subChunks[k].y = subChunkIndex}
       IN IF matching = {}
          THEN MissingSubChunk(x, absY, z)
          ELSE LET sc == c.subChunks[SetMin(matching)]
                   blockIndex == BlockIndex(localY, x, z)
                   hit == FindBlock(sc.layers, blockIndex)
               IN IF hit.found
                  THEN [kind |-> "block", block |-> hit.block]
                  ELSE [kind |-> "block",
                        block |-> [index |-> blockIndex, id |-> 0, name |-> "air",
                                   x |-> x, y |-> absY, z |-> z]]

\* getBlockAt on the chunk cached under key
GetBlockAt(key, x, absY, z) ==
  /\ pc = "idle"
  /\ key \in DOMAIN chunkCache
  /\ outcome' = GetBlockAtResult(chunkCache[key], x, absY, z)
  /\ query' = [done |-> TRUE, key |-> key, chunk |-> chunkCache[key],
               cache |-> chunkCache, x |-> x, y |-> absY, z |-> z]
  /\ UNCHANGED <<decoderVars, pc, chunkFrame, subFrame, calls, lastRead, spans,
                 layerStart, cacheBefore, itemLog, codec>>

----------------------------------------------------------------------------
(* The state after new ChunkDecoder() *)

EmptyMap == [k \in {} |-> 0]

InitDecoder ==
  /\ blockMappings = EmptyMap
  /\ chunkCache = EmptyMap
  /\ pc = "idle"
  /\ payload = NullPayload
  /\ chunkX = 0
  /\ chunkZ = 0
  /\ offset = 0
  /\ subChunkCount = 0
  /\ storageVersion = 0
  /\ chunk = [x |-> 0, z |-> 0, subChunks |-> <<>>]
  /\ y = 0
  /\ subOffset = 0
  /\ version = 0
  /\ layerCount = 0
  /\ subChunk = [y |-> 0, version |-> 0, layers |-> <<>>]
  /\ layer = 0
  /\ i = 0
  /\ blocks = <<>>
  /\ outcome = [kind |-> "none"]
  /\ calls = <<>>
  /\ lastRead = -1
  /\ spans = <<>>
  /\ layerStart = 0
  /\ cacheBefore = EmptyMap
  /\ itemLog = <<>>
  /\ query = [done |-> FALSE]

Init ==
  /\ InitDecoder
  /\ codec = [phase |-> "unused"]

----------------------------------------------------------------------------
(* Payloads *)

MaxSmallLen == 6
SmallBytes == {0, 1, 2, 255}

RECURSIVE SeqsUpTo(_, _)
SeqsUpTo(S, n) ==
  IF n = 0 THEN {<<>>}
  ELSE LET shorter == SeqsUpTo(S, n - 1) IN
       shorter \cup {Append(s, b) : s \in {t \in shorter : Len(t) = n - 1}, b \in S}

SmallPayloads == {Buf(s) : s \in SeqsUpTo(SmallBytes, MaxSmallLen)}

MaxTail == 2
LargeHeaders == {<<1, 8, 1, 1>>, <<1, 8, 1, 2>>, <<2, 8, 1, 1>>}
LargeMarks == {{}, {0, 5}, {0, BlocksPerLayer - 1}}

\* the bytes of hdr (a chunk header and a subchunk header), then one full layer
\* of BlocksPerLayer bytes holding id 1 at the indices of marks and 0 elsewhere,
\* then n bytes of value 2
LargePayload(hdr, marks, n) ==
  LET h == Len(hdr)
      t == h + BlocksPerLayer
  IN [present |-> TRUE,
      length  |-> t + n,
      data    |-> [o \in {k \in 0..(h - 1) : hdr[k + 1] # 0}
                         \cup {h + m : m \in marks}
                         \cup {t + k : k \in 0..(n - 1)} |->
                     IF o < h THEN hdr[o + 1] ELSE IF o < t THEN 1 ELSE 2]]

LargePayloads ==
  {LargePayload(hdr, m, n) : hdr \in LargeHeaders, m \in LargeMarks, n \in 0..MaxTail}

DecodePayloads == SmallPayloads \cup LargePayloads

DecodeNext ==
  \/ /\ pc = "idle"
     /\ calls = <<>>
     /\ \E p \in DecodePayloads : DecodeChunk(p, 0, 0)
  \/ DecodeSteps

\* one decodeChunk call on a fresh decoder
Spec == Init /\ [][DecodeNext]_vars

----------------------------------------------------------------------------
(* Properties of one decodeChunk call (Spec) *)

Max(a, b) == IF a >= b THEN a ELSE b

SubPcs == {"decodeSubChunk", "readVersion", "readLayerCount", "layerLoop",
           "blockLoop", "layerEnd"}

\* the read cursor of the function that is running
CursorOf(p, o, so) == IF p \in SubPcs THEN so ELSE o

\* a decodeChunk call on a payload of length >= 2 has finished
Decoded == pc = "idle" /\ calls # <<>> /\ payload.present /\ payload.length >= 2

\* the header and all declared layers of the k-th pushed subchunk lie in the payload
FullyInside(k) ==
  spans[k].start + 2 + BlocksPerLayer * Max(spans[k].layerCount, 0) <= payload.length

\* the declared subChunkCount exceeds the subchunks the buffer supplies in full
ExceedsSupply == subChunkCount > Cardinality({k \in 1..Len(spans) : FullyInside(k)})

\* C4 as stated: when the declared subChunkCount exceeds what the buffer supplies,
\* decodeChunk returns a chunk and every subchunk in it was fully inside the
\* payload (header and all 4096 bytes of every declared layer).
C4_OnlyFullSubChunks ==
  (Decoded /\ ExceedsSupply) =>
    /\ outcome.kind = "chunk"
    /\ Len(outcome.chunk.subChunks) = Len(spans)
    /\ \A k \in 1..Len(spans) : FullyInside(k)

\* C4 amended: when the declared subChunkCount exceeds what the buffer supplies,
\* decodeChunk returns a chunk; every subchunk in it had its 2-byte header inside
\* the payload, and every subchunk but the last was fully inside the payload: a
\* subchunk cut short by the end of the buffer is kept, as the last one.
C4_OnlyLastCutShort ==
  (Decoded /\ ExceedsSupply) =>
    /\ outcome.kind = "chunk"
    /\ Len(outcome.chunk.subChunks) = Len(spans)
    /\ \A k \in 1..Len(spans) :
         /\ spans[k].start >= 2
         /\ spans[k].start + 2 <= payload.length
         /\ outcome.chunk.subChunks[k].y = k - 1
         /\ k < Len(spans) => FullyInside(k)

\* a returned chunk whose last subchunk was cut short and still holds a block
C4_Witness ==
  /\ Decoded /\ ExceedsSupply
  /\ outcome.kind = "chunk"
  /\ Len(spans) >= 1
  /\ ~FullyInside(Len(spans))
  /\ outcome.chunk.subChunks[Len(spans)].layers # <<>>

\* C8: during decodeChunk every byte read is at an offset in 0..length-1, the
\* cursor moves only by exactly 1 with each byte read and never backwards, and
\* the cursor decodeSubChunk hands back is at most the payload length.
C8_CursorSafe ==
  /\ [](/\ lastRead >= -1 /\ lastRead < Max(payload.length, 0)
        /\ (pc # "idle" => CursorOf(pc, offset, subOffset) <= payload.length)
        /\ offset <= payload.length)
  /\ [][pc # "idle" =>
         LET cur == CursorOf(pc, offset, subOffset)
             nxt == CursorOf(pc', offset', subOffset')
         IN \/ nxt = cur /\ lastRead' = lastRead
            \/ nxt = cur + 1 /\ lastRead' = cur /\ cur >= 0 /\ cur < payload.length]_vars

\* a block byte was read at the last offset the guards allow
C8_Witness ==
  /\ pc = "blockLoop"
  /\ i = BlocksPerLayer
  /\ lastRead = payload.length - 2

\* the block indices of the layer that ended last, in order
EndedIndices == [k \in 1..Len(blocks) |-> blocks[k].index]

\* the indices of the non-zero bytes of the 4096-byte span of that layer
NonZeroInSpan == {k \in 0..(BlocksPerLayer - 1) : ByteAt(payload, layerStart + k) # 0}

\* C9 as stated: for a declared layer whose 4096-byte span lies inside the payload
\* (also when it ends at the last byte), the block list holds index i exactly when
\* byte i of the span is non-zero, ascending without duplicates, and the layer is
\* dropped exactly when all 4096 bytes are zero.
C9_FullLayerRead ==
  (pc = "layerLoop" /\ layer > 0 /\ layerStart + BlocksPerLayer <= payload.length) =>
    /\ {EndedIndices[k] : k \in 1..Len(blocks)} = NonZeroInSpan
    /\ \A k \in 1..(Len(blocks) - 1) : EndedIndices[k] < EndedIndices[k + 1]
    /\ (\E l \in 1..Len(subChunk.layers) : subChunk.layers[l].index = layer - 1)
         <=> NonZeroInSpan # {}

\* C10: on a payload of length >= 2 decodeChunk never fails: decodeSubChunk's
\* overflow check never fires, the call returns a chunk with at most
\* max(subChunkCount, 0) subchunks and caches it; only a too-short payload fails.
C10_NeverFails ==
  /\ (pc = "decodeSubChunk" => subOffset + 2 <= payload.length)
  /\ outcome.kind = "error" => (~payload.present \/ payload.length < 2)
  /\ Decoded =>
       /\ outcome.kind = "chunk"
       /\ Len(outcome.chunk.subChunks) <= Max(subChunkCount, 0)
       /\ GetLastDecodedChunk(chunkX, chunkZ) = [found |-> TRUE, chunk |-> outcome.chunk]

\* a truncated payload: two subchunks declared, one returned
C10_Witness ==
  /\ Decoded
  /\ outcome.kind = "chunk"
  /\ subChunkCount = 2
  /\ Len(outcome.chunk.subChunks) = 1

----------------------------------------------------------------------------
(* getBlockAt on a decoded chunk (SpecQuery) *)

MaxQueryLen == 4
QueryBytes == {0, 1, 2}
QueryMarks == {{0, 5}, {0, BlocksPerLayer - 1}}

\* short payloads declaring one or two subchunks, and payloads with one full
\* layer followed by the start of a second layer
QueryPayloads ==
  {Buf(<<sc, 8>> \o s) : sc \in {1, 2}, s \in SeqsUpTo(QueryBytes, MaxQueryLen)}
    \cup {LargePayload(<<1, 8, 1, 2>>, m, n) : m \in QueryMarks, n \in 0..MaxTail}

QueryXZ == {-1, 0, 5, 15, 16}
QueryY == {-16, -1, 0, 15, 16, 17, 32}

QueryNext ==
  \/ /\ pc = "idle"
     /\ calls = <<>>
     /\ \E p \in QueryPayloads : DecodeChunk(p, 0, 0)
  \/ DecodeSteps
  \/ /\ pc = "idle"
     /\ ~query.done
     /\ \E key \in DOMAIN chunkCache, x \in QueryXZ, absY \in QueryY, z \in QueryXZ :
          GetBlockAt(key, x, absY, z)

\* one decodeChunk call on a fresh decoder, then one getBlockAt on the cached chunk
SpecQuery == Init /\ [][QueryNext]_vars

\* the last operation was a getBlockAt with x and z in 0..15
Queried == query.done /\ query.x \in 0..15 /\ query.z \in 0..15

\* the positions in the queried chunk of the subchunks of slot floor(y / 16)
QuerySlots ==
  {k \in 1..Len(query.chunk.subChunks) :
     query.chunk.subChunks[k].y * 16 <= query.y
       /\ query.y < query.chunk.subChunks[k].y * 16 + 16}

\* C1 as stated: when the chunk has no subchunk of slot floor(absoluteY / 16),
\* getBlockAt returns the air sentinel (id 0, name "air"), not null and no failure.
C1_AirWhenNoSubChunk ==
  (Queried /\ QuerySlots = {}) =>
    /\ outcome.kind = "block"
    /\ outcome.block.id = 0
    /\ outcome.block.name = "air"

\* C1 amended: when the chunk has no subchunk of slot floor(absoluteY / 16),
\* getBlockAt returns null (no block and no air sentinel) and does not fail.
C1_NullWhenNoSubChunk ==
  (Queried /\ QuerySlots = {}) => outcome = [kind |-> "null"]

\* a query above the subchunks of a chunk that has some
C1_Witness ==
  /\ Queried /\ QuerySlots = {}
  /\ query.chunk.subChunks # <<>>
  /\ query.y >= 0
  /\ outcome.kind = "null"

\* the layers of the queried subchunk that hold a block of the queried index
QueryIndex == ((query.y % 16) * 256) + (query.z * 16) + query.x
QueryLayers == query.chunk.subChunks[SetMin(QuerySlots)].layers
QueryHolding ==
  {l \in 1..Len(QueryLayers) :
     \E b \in 1..Len(QueryLayers[l].blocks) : QueryLayers[l].blocks[b].index = QueryIndex}

\* C6: for y >= 0 whose subchunk exists, getBlockAt returns the stored block of
\* index (y mod 16)*256 + z*16 + x from the first layer holding one, else an air
\* sentinel with that index, id 0, name "air" and the x, y, z passed in; the
\* chunk and the cache are left as they were.
C6_FirstLayerOrAir ==
  (Queried /\ query.y >= 0 /\ QuerySlots # {}) =>
    /\ outcome.kind = "block"
    /\ IF QueryHolding = {}
       THEN outcome.block = [index |-> QueryIndex, id |-> 0, name |-> "air",
                             x |-> query.x, y |-> query.y, z |-> query.z]
       ELSE /\ outcome.block.index = QueryIndex
            /\ \E b \in 1..Len(QueryLayers[SetMin(QueryHolding)].blocks) :
                 QueryLayers[SetMin(QueryHolding)].blocks[b] = outcome.block
            /\ \A l \in QueryHolding \ {SetMin(QueryHolding)} :
                 \A b \in 1..Len(QueryLayers[l].blocks) :
                   QueryLayers[l].blocks[b].index = QueryIndex =>
                     QueryLayers[l].blocks[b] # outcome.block
    /\ chunkCache = query.cache
    /\ chunkCache[query.key] = query.chunk

\* two layers hold a block at the queried index and the first layer's is returned
C6_Witness ==
  /\ Queried /\ query.y >= 0 /\ QuerySlots # {}
  /\ Cardinality(QueryHolding) = 2
  /\ outcome.kind = "block"
  /\ outcome.block.id = 1

----------------------------------------------------------------------------
(* Sequences of decodeChunk calls over several coordinates (SpecCache) *)

MaxCalls == 3

\* coordinates whose keys differ only by where the separator stands, and a negative one
CacheCoords == {<<1, 11>>, <<11, 1>>, <<-1, 1>>}
CoordVals == {-1, 1, 11}

\* absent, empty, one byte, no subchunk, a subchunk without layers, a subchunk
\* with a block
CachePayloads ==
  {NullPayload, Buf(<<>>), Buf(<<7>>), Buf(<<0, 8>>), Buf(<<1, 8, 1, 0>>),
   Buf(<<1, 8, 1, 1, 2, 0>>)}

CacheNext ==
  \/ /\ pc = "idle"
     /\ Len(calls) < MaxCalls
     /\ \E p \in CachePayloads, c \in CacheCoords : DecodeChunk(p, c[1], c[2])
  \/ DecodeSteps

\* up to MaxCalls decodeChunk calls on one decoder
SpecCache == Init /\ [][CacheNext]_vars

\* the chunk returned by the last successful call for (x, z) among the first n calls
RECURSIVE LastReturned(_, _, _)
LastReturned(n, x, z) ==
  IF n = 0 THEN [found |-> FALSE]
  ELSE IF calls[n].x = x /\ calls[n].z = z /\ calls[n].ok
       THEN [found |-> TRUE, chunk |-> calls[n].chunk]
       ELSE LastReturned(n - 1, x, z)

\* C2: after any sequence of decodeChunk calls, getLastDecodedChunk(x, z) is the
\* chunk the most recent successful call for (x, z) returned, with nothing of an
\* earlier chunk in it, and absent when no call for (x, z) succeeded; a decode
\* for one coordinate leaves the entries of the others alone.
C2_CacheHoldsLastDecoded ==
  \A x \in CoordVals, z \in CoordVals :
    GetLastDecodedChunk(x, z) = LastReturned(Len(calls), x, z)

\* a coordinate decoded twice with different contents, the cache holding the second
C2_Witness ==
  /\ pc = "idle"
  /\ Len(calls) = 2
  /\ calls[1].ok /\ calls[2].ok
  /\ calls[1].x = calls[2].x /\ calls[1].z = calls[2].z
  /\ calls[1].chunk # calls[2].chunk
  /\ calls[1].chunk.subChunks # <<>>
  /\ GetLastDecodedChunk(calls[2].x, calls[2].z).chunk = calls[2].chunk

\* C3: decodeChunk with an absent payload or one shorter than 2 bytes fails with
\* the "too short" error carrying chunkX,chunkZ, and leaves the cache as it was.
C3_TooShortFails ==
  (pc = "idle" /\ calls # <<>> /\ (~payload.present \/ payload.length < 2)) =>
    /\ outcome.kind = "error"
    /\ outcome.message = "Failed to decode chunk at " \o ToString(chunkX) \o ","
                           \o ToString(chunkZ) \o ": Invalid chunk payload: too short"
    /\ ~calls[Len(calls)].ok
    /\ chunkCache = cacheBefore

\* a one-byte payload failing for a coordinate that is already cached
C3_Witness ==
  /\ pc = "idle"
  /\ calls # <<>>
  /\ payload.present /\ payload.length = 1
  /\ outcome.kind = "error"
  /\ GetLastDecodedChunk(chunkX, chunkZ).found

----------------------------------------------------------------------------
(* setBlockMappings, then one decodeChunk call (SpecNames) *)

MaxItems == 2
ItemNames == {"", "minecraft:stone", "minecraft:dirt"}
ItemIds == {1, 2}

\* {name, runtime_id}, and {name} without a runtime_id
ItemStates ==
  {[name |-> n, has_id |-> TRUE, runtime_id |-> k] : n \in ItemNames, k \in ItemIds}
    \cup {[name |-> n, has_id |-> FALSE, runtime_id |-> 0] : n \in ItemNames}

NamePayloads == {Buf(<<1, 8, 1, 1, k, 0>>) : k \in {1, 2, 3}}

NamesNext ==
  \/ /\ pc = "idle"
     /\ calls = <<>>
     /\ \E items \in SeqsUpTo(ItemStates, MaxItems) :
          Len(itemLog) + Len(items) <= MaxItems /\ items # <<>> /\ SetBlockMappings(items)
  \/ /\ pc = "idle"
     /\ calls = <<>>
     /\ \E p \in NamePayloads : DecodeChunk(p, 0, 0)
  \/ DecodeSteps

SpecNames == Init /\ [][NamesNext]_vars

\* the name of the last of the first n processed entries with runtime_id k
RECURSIVE LastNamed(_, _)
LastNamed(n, k) ==
  IF n = 0 THEN [found |-> FALSE]
  ELSE IF itemLog[n].has_id /\ itemLog[n].runtime_id = k
       THEN [found |-> TRUE, name |-> itemLog[n].name]
       ELSE LastNamed(n - 1, k)

\* C5 as stated: a block decoded with runtime id k is named after the last
\* processed entry whose runtime_id is k, whatever the name (also the empty one),
\* and "unknown_block_k" exactly when there was no such entry.
C5_NameOfLastEntry ==
  pc \in {"blockLoop", "layerEnd"} =>
    \A b \in 1..Len(blocks) :
      LET last == LastNamed(Len(itemLog), blocks[b].id)
      IN blocks[b].name = IF last.found THEN last.name
                          ELSE "unknown_block_" \o ToString(blocks[b].id)

----------------------------------------------------------------------------
(* The coordinate transforms on all their inputs (SpecCodec) *)

CodecInputs ==
  {[phase |-> "index", i |-> n] : n \in 0..(BlocksPerLayer - 1)}
    \cup {[phase |-> "local", x |-> a, y |-> b, z |-> c] :
            a \in 0..15, b \in 0..15, c \in 0..15}

CodecInit == InitDecoder /\ codec \in CodecInputs

\* createBlockData on an index
IndexToLocal ==
  /\ codec.phase = "index"
  /\ codec' = [phase |-> "index_local", i |-> codec.i,
               block |-> CreateBlockData(1, codec.i)]
  /\ UNCHANGED <<decoderVars, pc, chunkFrame, subFrame, outcome, histVars>>

\* getBlockAt's blockIndex on the coordinates createBlockData gave
LocalBackToIndex ==
  /\ codec.phase = "index_local"
  /\ codec' = [phase |-> "index_done", i |-> codec.i,
               back |-> BlockIndex(codec.block.y, codec.block.x, codec.block.z)]
  /\ UNCHANGED <<decoderVars, pc, chunkFrame, subFrame, outcome, histVars>>

\* getBlockAt's blockIndex on local coordinates
LocalToIndex ==
  /\ codec.phase = "local"
  /\ codec' = [phase |-> "local_index", x |-> codec.x, y |-> codec.y, z |-> codec.z,
               index |-> BlockIndex(codec.y, codec.x, codec.z)]
  /\ UNCHANGED <<decoderVars, pc, chunkFrame, subFrame, outcome, histVars>>

\* createBlockData on the index blockIndex gave
IndexBackToLocal ==
  /\ codec.phase = "local_index"
  /\ codec' = [phase |-> "local_done", x |-> codec.x, y |-> codec.y, z |-> codec.z,
               block |-> CreateBlockData(1, codec.index)]
  /\ UNCHANGED <<decoderVars, pc, chunkFrame, subFrame, outcome, histVars>>

CodecNext == IndexToLocal \/ LocalBackToIndex \/ LocalToIndex \/ IndexBackToLocal

SpecCodec == CodecInit /\ [][CodecNext]_vars

\* C7: the index-to-local transform of createBlockData and the local-to-index
\* transform of getBlockAt are exact inverses: for i in 0..4095 the derived x, y, z
\* lie in 0..15 and map back to i, and every (localY, x, z) in 0..15 maps to an
\* index whose derived coordinates are (x, localY, z).
C7_RoundTrip ==
  /\ codec.phase = "index_local" =>
       /\ codec.block.x \in 0..15
       /\ codec.block.y \in 0..15
       /\ codec.block.z \in 0..15
       /\ codec.block.index = codec.i
  /\ codec.phase = "index_done" => codec.back = codec.i
  /\ codec.phase = "local_index" => codec.index \in 0..(BlocksPerLayer - 1)
  /\ codec.phase = "local_done" =>
       <<codec.block.x, codec.block.y, codec.block.z>> = <<codec.x, codec.y, codec.z>>

\* the last index went to (15, 15, 15) and back
C7_Witness == codec.phase = "index_done" /\ codec.i = BlocksPerLayer - 1 /\ codec.back = codec.i
====
